---- MODULE Spec2Model ----
(***************************************************************************)
(* SplitRight: the history page (src/pages/History.tsx), the bounded       *)
(* history store and live-split slot it calls into (lib/storage), and the  *)
(* share computation shown in the Split Summary dialog (lib/calculations   *)
(* plus the inline tax / tip rows of History.tsx).                         *)
(*                                                                         *)
(* Amounts are exact rationals [n, d] in lowest terms (d > 0); d = 0       *)
(* stands for the non-finite results (Infinity, NaN) of a JavaScript       *)
(* division by zero.                                                       *)
(***************************************************************************)
EXTENDS Integers, Sequences, FiniteSets, TLC

\* ------------------------------------------------------------------ bounds

MaxCommits == 5
MaxItems == 2

\* "Only the 5 most recent splits are saved in history."
HISTORY_LIMIT == 5

\* ------------------------------------------------------------- arithmetic

Abs(x) == IF x < 0 THEN -x ELSE x

RECURSIVE GCD(_, _)
GCD(a, b) == IF b = 0 THEN a ELSE GCD(b, a % b)

RNorm(n, d) ==
    IF d = 0 THEN [n |-> IF n = 0 THEN 0 ELSE 1, d |-> 0]
    ELSE LET g == GCD(Abs(n), Abs(d))
             s == IF d < 0 THEN -1 ELSE 1
         IN  [n |-> (s * n) \div g, d |-> (s * d) \div g]

R(i) == [n |-> i, d |-> 1]
Zero == R(0)
One == R(1)
NaN == [n |-> 0, d |-> 0]

IsFinite(a) == a.d # 0

RAdd(a, b) == IF IsFinite(a) /\ IsFinite(b)
              THEN RNorm(a.n * b.d + b.n * a.d, a.d * b.d) ELSE NaN
RMul(a, b) == IF IsFinite(a) /\ IsFinite(b)
              THEN RNorm(a.n * b.n, a.d * b.d) ELSE NaN
RDiv(a, b) == IF IsFinite(a) /\ IsFinite(b)
              THEN RNorm(a.n * b.d, a.d * b.n) ELSE NaN

\* Faulty variant: the fallback is left out and a zero divisor stays zero.
OrOne_unguarded(a) == a

\* JavaScript's  x || 1 : 0 and NaN are falsy.
OrOne(a) == IF a = Zero \/ a = NaN THEN One ELSE a

\* -------------------------------------------------------------- SplitData

PeopleSets == {{}, {"A"}, {"A", "B"}}
Prices == {0, 3}
Quantities == {1, 2}
TaxValues == {0, 10}
TipValues == {0, 10}

PaymentAbsent == [present |-> FALSE, method |-> "null"]
PaymentNone == [present |-> TRUE, method |-> "null"]
PaymentVenmo == [present |-> TRUE, method |-> "venmo"]

ItemSet(people) == [price : Prices, quantity : Quantities, assignedTo : SUBSET people]

SeqsUpTo(S, n) == UNION {[1..k -> S] : k \in 0..n}

SplitDataSet ==
    UNION {[people : {p}, items : SeqsUpTo(ItemSet(p), MaxItems), tax : TaxValues,
            tipType : {"amount", "percent"}, tipValue : TipValues,
            taxTipSplitMode : {"equal", "proportional"},
            paymentInfo : {PaymentNone}] : p \in PeopleSets}

\* ----------------------------------------------------------- calculations

\* Sum of price * quantity over all items (the reduce of line 482).
RECURSIVE ItemsSum(_)
ItemsSum(items) ==
    IF items = <<>> THEN Zero
    ELSE RAdd(R(Head(items).price * Head(items).quantity), ItemsSum(Tail(items)))

\* Faulty variant: the quantity is forgotten in the reduce.
RECURSIVE PriceSum(_)
PriceSum(items) ==
    IF items = <<>> THEN Zero ELSE RAdd(R(Head(items).price), PriceSum(Tail(items)))

itemsSubtotal_noQuantity(data) == OrOne(PriceSum(data.items))

\* const itemsSubtotal = items.reduce(...) || 1
itemsSubtotal(data) == OrOne(ItemsSum(data.items))

\* lib/calculations calculateTip(subtotal, tipType, tipValue)
calculateTip(subtotal, tipType, tipValue) ==
    IF tipType = "percent" THEN RDiv(RMul(subtotal, R(tipValue)), R(100))
    ELSE R(tipValue)

\* const tipAmount = calculateTip(itemsSubtotal, tipType, tipValue)
tipAmount(data) == calculateTip(itemsSubtotal(data), data.tipType, data.tipValue)

\* const peopleCount = people.length || 1
peopleCount(data) == OrOne(R(Cardinality(data.people)))

\* Faulty variant: the unit price is split and the quantity is left out.
itemShare_perUnit(item) == RDiv(R(item.price), R(Cardinality(item.assignedTo)))

\* const splitCount = item.assignedTo.length;
\* const itemShare = (item.price * item.quantity) / splitCount
itemShare(item) == RDiv(R(item.price * item.quantity), R(Cardinality(item.assignedTo)))

\* const personItems = items.filter(i => i.assignedTo.includes(person.id))
personItems(personId, items) == SelectSeq(items, LAMBDA i : personId \in i.assignedTo)

RECURSIVE SumShares(_)
SumShares(items) ==
    IF items = <<>> THEN Zero ELSE RAdd(itemShare(Head(items)), SumShares(Tail(items)))

\* lib/calculations calculatePersonSubtotal(personId, items)
calculatePersonSubtotal(personId, items) == SumShares(personItems(personId, items))

\* Faulty variant: the two split modes are swapped.
taxShare_swapped(data, personId) ==
    IF data.taxTipSplitMode # "equal"
    THEN RDiv(R(data.tax), peopleCount(data))
    ELSE RDiv(RMul(R(data.tax), calculatePersonSubtotal(personId, data.items)),
              itemsSubtotal(data))

\* The Tax row: equal ? tax / peopleCount : (tax * subtotal) / itemsSubtotal
taxShare(data, personId) ==
    IF data.taxTipSplitMode = "equal"
    THEN RDiv(R(data.tax), peopleCount(data))
    ELSE RDiv(RMul(R(data.tax), calculatePersonSubtotal(personId, data.items)),
              itemsSubtotal(data))

\* The Tip row: equal ? tipAmount / peopleCount : (tipAmount * subtotal) / itemsSubtotal
tipShare(data, personId) ==
    IF data.taxTipSplitMode = "equal"
    THEN RDiv(tipAmount(data), peopleCount(data))
    ELSE RDiv(RMul(tipAmount(data), calculatePersonSubtotal(personId, data.items)),
              itemsSubtotal(data))

\* lib/calculations calculateFinalShares(data): participant id -> final share
calculateFinalShares(data) ==
    [p \in data.people |->
        RAdd(calculatePersonSubtotal(p, data.items),
             RAdd(taxShare(data, p), tipShare(data, p)))]

\* const share = shares.get(person.id) || 0
share(data, personId) ==
    LET v == calculateFinalShares(data)[personId]
    IN  IF v = Zero \/ v = NaN THEN Zero ELSE v

\* lib/calculations calculateTotal(data)
calculateTotal(data) ==
    RAdd(ItemsSum(data.items), RAdd(R(data.tax), tipAmount(data)))

RECURSIVE SumOver(_, _)
SumOver(f, S) ==
    IF S = {} THEN Zero
    ELSE LET x == CHOOSE y \in S : TRUE IN RAdd(f[x], SumOver(f, S \ {x}))

\* ------------------------------------------------------------------ state

VARIABLES
    stored,           \* the persisted history log (lib/storage), most recent first
    liveSplit,        \* the persisted live-split slot: <<>> or <<SplitData>>
    clock,            \* the instant the next commit is stamped with
    page,             \* "history" while the History page is mounted, else "other"
    history,          \* useState<HistoryEntry[]>([])
    loading,          \* useState(true)
    selectedEntry,    \* useState<HistoryEntry | null>(null): <<>> or <<entry>>
    showDetails,      \* useState(false)
    toast,            \* the title of the last toast shown
    threw,            \* the storage call or the export of the last step threw
    redirectPending,  \* the setTimeout of handleLoadSplit has not fired yet
    downloading,      \* useState(false)
    exportPending,    \* the toPng promise of handleDownloadImage has not settled yet
    theme,            \* ThemeProvider: useState<Theme>
    themeStored,      \* localStorage['splitright_theme']: "absent" or the string held
    rootClasses,      \* the class list of document.documentElement
    prefersDark,      \* matchMedia('(prefers-color-scheme: dark)').matches
    themeEffect       \* the effect of the last render that runs next: "apply", "save", "done"

vars == <<stored, liveSplit, clock, page, history, loading, selectedEntry,
          showDetails, toast, threw, redirectPending, downloading, exportPending,
          theme, themeStored, rootClasses, prefersDark, themeEffect>>

storeVars == <<stored, liveSplit, clock>>
dialogVars == <<selectedEntry, showDetails>>
busyVars == <<downloading, exportPending>>
themeVars == <<theme, themeStored, rootClasses, prefersDark, themeEffect>>
pageVars == <<stored, liveSplit, clock, page, history, loading, selectedEntry,
              showDetails, toast, threw, redirectPending, downloading, exportPending>>

\* The split the split page commits, and the splits it edits.
CommittedSplit ==
    [people |-> {"A", "B"},
     items |-> <<[price |-> 3, quantity |-> 2, assignedTo |-> {"A", "B"}]>>,
     tax |-> 10, tipType |-> "percent", tipValue |-> 10,
     taxTipSplitMode |-> "equal", paymentInfo |-> PaymentVenmo]

SampleSplits ==
    { CommittedSplit,
      [people |-> {"A"},
       items |-> <<[price |-> 3, quantity |-> 1, assignedTo |-> {"A"}],
                   [price |-> 3, quantity |-> 2, assignedTo |-> {}]>>,
       tax |-> 0, tipType |-> "amount", tipValue |-> 10,
       taxTipSplitMode |-> "proportional", paymentInfo |-> PaymentNone] }

\* A HistoryEntry as the split page builds it at commit time.
NewEntry(data, now) ==
    [id |-> now, timestamp |-> now,
     peopleCount |-> Cardinality(data.people), itemsCount |-> Len(data.items),
     total |-> calculateTotal(data), data |-> data]

\* A record written before paymentInfo existed.
LegacyEntry ==
    NewEntry([people |-> {"A", "B"},
              items |-> <<[price |-> 3, quantity |-> 1, assignedTo |-> {"B"}]>>,
              tax |-> 10, tipType |-> "amount", tipValue |-> 0,
              taxTipSplitMode |-> "proportional", paymentInfo |-> PaymentAbsent], 0)

LegacyLogs == {<<>>, <<LegacyEntry>>}

AllIds == 0..MaxCommits

Range(seq) == {seq[i] : i \in 1..Len(seq)}
Ids(log) == [i \in 1..Len(log) |-> log[i].id]
HasId(log, id) == \E i \in 1..Len(log) : log[i].id = id

\* The ids a delete is asked for: those listed or persisted, and one that no entry has.
DeleteIds == {e.id : e \in Range(history) \cup Range(stored)} \cup {clock}

\* ---------------------------------------------------------------- storage

\* lib/storage getHistory(): the entries as persisted
getHistory == stored

\* Faulty variant: the new entry is appended and the newest entries are cut off.
addToHistory_append(log, entry) ==
    SubSeq(log \o <<entry>>, 1,
           IF Len(log) + 1 > HISTORY_LIMIT THEN HISTORY_LIMIT ELSE Len(log) + 1)

\* lib/storage: prepend, keep the HISTORY_LIMIT most recent
addToHistory(log, entry) ==
    SubSeq(<<entry>> \o log, 1,
           IF Len(log) + 1 > HISTORY_LIMIT THEN HISTORY_LIMIT ELSE Len(log) + 1)

\* lib/storage deleteHistoryEntry(id)
deleteHistoryEntry(log, id) == SelectSeq(log, LAMBDA e : e.id # id)

\* lib/storage clearHistory()
clearHistory == <<>>

\* lib/storage saveSplitData(data): the slot holds a serialized copy
saveSplitData(data) == <<data>>

\* ------------------------------------------------------------ History page

\* Faulty variant: paymentInfo is reset whether or not the record has one.
NormalizeEntry_always(entry) == [entry EXCEPT !.data.paymentInfo = PaymentNone]

\* entries.map(entry => ({...entry, data: {...entry.data,
\*     paymentInfo: entry.data.paymentInfo || { method: null }}}))
NormalizeEntry(entry) ==
    [entry EXCEPT !.data.paymentInfo =
        IF entry.data.paymentInfo.present THEN entry.data.paymentInfo ELSE PaymentNone]

NormalizeAll(entries) == [i \in 1..Len(entries) |-> NormalizeEntry(entries[i])]

\* Faulty variant: the counts are recomputed from data (items as the sum of quantities).
RECURSIVE QuantitySum(_)
QuantitySum(items) ==
    IF items = <<>> THEN 0 ELSE Head(items).quantity + QuantitySum(Tail(items))

SummaryRow_recomputed(entry) ==
    [people |-> Cardinality(entry.data.people), items |-> QuantitySum(entry.data.items),
     total |-> calculateTotal(entry.data)]

\* The summary row of an entry: entry.peopleCount, entry.itemsCount, entry.total.
SummaryRow(entry) ==
    [people |-> entry.peopleCount, items |-> entry.itemsCount, total |-> entry.total]

\* The state of a freshly mounted page (the useState initial values).
Unmounted ==
    /\ history' = <<>>
    /\ loading' = TRUE
    /\ selectedEntry' = <<>>
    /\ showDetails' = FALSE
    /\ downloading' = FALSE
    /\ exportPending' = FALSE

\* The theme after its effects have run, with no stored choice and a light system.
ThemeSettled ==
    /\ theme = "light"
    /\ themeStored = "light"
    /\ rootClasses = {"light"}
    /\ prefersDark = FALSE
    /\ themeEffect = "done"

Init ==
    /\ stored \in LegacyLogs
    /\ liveSplit = <<>>
    /\ clock = 1
    /\ page = "other"
    /\ history = <<>>
    /\ loading = TRUE
    /\ selectedEntry = <<>>
    /\ showDetails = FALSE
    /\ toast = "none"
    /\ threw = FALSE
    /\ redirectPending = FALSE
    /\ downloading = FALSE
    /\ exportPending = FALSE
    /\ ThemeSettled

\* The split page commits the finished split (historyCommit).
commit(data) ==
    /\ page = "other"
    /\ clock <= MaxCommits
    /\ \E ok \in BOOLEAN :
         /\ threw' = ~ok
         /\ IF ok THEN /\ stored' = addToHistory(stored, NewEntry(data, clock))
                       /\ clock' = clock + 1
                       /\ toast' = toast
                  ELSE /\ UNCHANGED <<stored, clock>>
                       /\ toast' = "Failed to save"
    /\ UNCHANGED <<liveSplit, page, history, loading, dialogVars, redirectPending>>
    /\ UNCHANGED <<busyVars, themeVars>>

\* The split page saves the split being edited into the live-split slot.
editSplit(data) ==
    /\ page = "other"
    /\ liveSplit' = saveSplitData(data)
    /\ threw' = FALSE
    /\ UNCHANGED <<stored, clock, page, history, loading, dialogVars, toast,
                   redirectPending>>
    /\ UNCHANGED <<busyVars, themeVars>>

\* The user opens the History page.
mount ==
    /\ page = "other"
    /\ page' = "history"
    /\ Unmounted
    /\ threw' = FALSE
    /\ UNCHANGED <<storeVars, toast, redirectPending>>
    /\ UNCHANGED themeVars

\* <Link to="/">, <Link to="/split">: the page is left and its state dropped.
leave ==
    /\ page = "history"
    /\ page' = "other"
    /\ Unmounted
    /\ threw' = FALSE
    /\ UNCHANGED <<storeVars, toast, redirectPending>>
    /\ UNCHANGED themeVars

\* Faulty variant: the loaded entries are added to the list instead of replacing it.
loadHistory_append ==
    /\ page = "history"
    /\ \E ok \in BOOLEAN :
         /\ threw' = ~ok
         /\ IF ok THEN /\ history' = history \o NormalizeAll(getHistory)
                       /\ toast' = toast
                  ELSE /\ history' = history
                       /\ toast' = "Failed to load history"
    /\ loading' = FALSE
    /\ UNCHANGED <<storeVars, page, dialogVars, redirectPending>>
    /\ UNCHANGED <<busyVars, themeVars>>

loadHistory ==
    /\ page = "history"
    /\ \E ok \in BOOLEAN :
         /\ threw' = ~ok
         /\ IF ok THEN /\ history' = NormalizeAll(getHistory)
                       /\ toast' = toast
                  ELSE /\ history' = history
                       /\ toast' = "Failed to load history"
    /\ loading' = FALSE
    /\ UNCHANGED <<storeVars, page, dialogVars, redirectPending>>
    /\ UNCHANGED <<busyVars, themeVars>>

\* Faulty variant: the list is updated before the storage call, which may throw.
handleDelete_optimistic(id) ==
    /\ page = "history" /\ ~loading
    /\ \E ok \in BOOLEAN :
         /\ threw' = ~ok
         /\ history' = SelectSeq(history, LAMBDA entry : entry.id # id)
         /\ IF ok THEN /\ stored' = deleteHistoryEntry(stored, id)
                       /\ toast' = "Deleted"
                  ELSE /\ UNCHANGED stored
                       /\ toast' = "Failed to delete"
    /\ UNCHANGED <<liveSplit, clock, page, loading, dialogVars, redirectPending>>
    /\ UNCHANGED <<busyVars, themeVars>>

\* Faulty variant: the filter keeps the entry instead of dropping it.
handleDelete_keep(id) ==
    /\ page = "history" /\ ~loading
    /\ \E ok \in BOOLEAN :
         /\ threw' = ~ok
         /\ IF ok THEN /\ stored' = deleteHistoryEntry(stored, id)
                       /\ history' = SelectSeq(history, LAMBDA entry : entry.id = id)
                       /\ toast' = "Deleted"
                  ELSE /\ UNCHANGED <<stored, history>>
                       /\ toast' = "Failed to delete"
    /\ UNCHANGED <<liveSplit, clock, page, loading, dialogVars, redirectPending>>
    /\ UNCHANGED <<busyVars, themeVars>>

handleDelete(id) ==
    /\ page = "history" /\ ~loading
    /\ \E ok \in BOOLEAN :
         /\ threw' = ~ok
         /\ IF ok THEN /\ stored' = deleteHistoryEntry(stored, id)
                       /\ history' = SelectSeq(history, LAMBDA entry : entry.id # id)
                       /\ toast' = "Deleted"
                  ELSE /\ UNCHANGED <<stored, history>>
                       /\ toast' = "Failed to delete"
    /\ UNCHANGED <<liveSplit, clock, page, loading, dialogVars, redirectPending>>
    /\ UNCHANGED <<busyVars, themeVars>>

\* Faulty variant: the log is cleared and the list on the page is left as it was.
handleClearAll_keepList ==
    /\ page = "history" /\ ~loading
    /\ Len(history) > 0
    /\ \E ok \in BOOLEAN :
         /\ threw' = ~ok
         /\ IF ok THEN /\ stored' = clearHistory
                       /\ history' = history
                       /\ toast' = "History cleared"
                  ELSE /\ UNCHANGED <<stored, history>>
                       /\ toast' = "Failed to clear history"
    /\ UNCHANGED <<liveSplit, clock, page, loading, dialogVars, redirectPending>>
    /\ UNCHANGED <<busyVars, themeVars>>

handleClearAll ==
    /\ page = "history" /\ ~loading
    /\ Len(history) > 0
    /\ \E ok \in BOOLEAN :
         /\ threw' = ~ok
         /\ IF ok THEN /\ stored' = clearHistory
                       /\ history' = <<>>
                       /\ toast' = "History cleared"
                  ELSE /\ UNCHANGED <<stored, history>>
                       /\ toast' = "Failed to clear history"
    /\ UNCHANGED <<liveSplit, clock, page, loading, dialogVars, redirectPending>>
    /\ UNCHANGED <<busyVars, themeVars>>

\* Faulty variant: the entry is moved into the live-split slot, not copied.
handleLoadSplit_move(entry) ==
    /\ page = "history" /\ ~loading
    /\ \E ok \in BOOLEAN :
         /\ threw' = ~ok
         /\ IF ok THEN /\ liveSplit' = saveSplitData(entry.data)
                       /\ history' = SelectSeq(history, LAMBDA e : e.id # entry.id)
                       /\ toast' = "Split loaded"
                       /\ redirectPending' = TRUE
                  ELSE /\ UNCHANGED <<liveSplit, history, redirectPending>>
                       /\ toast' = "Failed to load split"
    /\ UNCHANGED <<stored, clock, page, loading, dialogVars>>
    /\ UNCHANGED <<busyVars, themeVars>>

handleLoadSplit(entry) ==
    /\ page = "history" /\ ~loading
    /\ \E ok \in BOOLEAN :
         /\ threw' = ~ok
         /\ IF ok THEN /\ liveSplit' = saveSplitData(entry.data)
                       /\ toast' = "Split loaded"
                       /\ redirectPending' = TRUE
                  ELSE /\ UNCHANGED <<liveSplit, redirectPending>>
                       /\ toast' = "Failed to load split"
    /\ UNCHANGED <<stored, clock, page, history, loading, dialogVars>>
    /\ UNCHANGED <<busyVars, themeVars>>

\* setTimeout(() => { window.location.href = '/split' }, 500): a full page load.
redirect ==
    /\ redirectPending
    /\ redirectPending' = FALSE
    /\ page' = "other"
    /\ Unmounted
    /\ toast' = "none"
    /\ threw' = FALSE
    /\ UNCHANGED storeVars
    /\ UNCHANGED themeVars

\* entry is the i-th element of history; the handler writes through the reference.
handleViewDetails(i) ==
    /\ page = "history" /\ ~loading
    /\ i \in 1..Len(history)
    /\ history' = [history EXCEPT ![i].data.paymentInfo =
                      IF @.present THEN @ ELSE PaymentNone]
    /\ selectedEntry' = <<history'[i]>>
    /\ showDetails' = FALSE
    /\ threw' = FALSE
    /\ UNCHANGED <<storeVars, page, loading, toast, redirectPending>>
    /\ UNCHANGED <<busyVars, themeVars>>

\* onClick={() => setShowDetails(!showDetails)}
toggleDetails ==
    /\ page = "history" /\ selectedEntry # <<>>
    /\ showDetails' = ~showDetails
    /\ threw' = FALSE
    /\ UNCHANGED <<storeVars, page, history, loading, selectedEntry, toast,
                   redirectPending>>
    /\ UNCHANGED <<busyVars, themeVars>>

\* onOpenChange={(open) => !open && setSelectedEntry(null)}
closeDialog ==
    /\ page = "history" /\ selectedEntry # <<>>
    /\ selectedEntry' = <<>>
    /\ threw' = FALSE
    /\ UNCHANGED <<storeVars, page, history, loading, showDetails, toast,
                   redirectPending>>
    /\ UNCHANGED <<busyVars, themeVars>>

\* handleDownloadImage up to `await toPng(...)`: the button is inside the
\* open dialog, where cardRef.current is set, and is disabled while downloading.
handleDownloadImage ==
    /\ page = "history" /\ ~loading
    /\ selectedEntry # <<>>
    /\ ~downloading
    /\ downloading' = TRUE
    /\ exportPending' = TRUE
    /\ threw' = FALSE
    /\ UNCHANGED <<storeVars, page, history, loading, dialogVars, toast,
                   redirectPending>>
    /\ UNCHANGED themeVars

\* Faulty variant: setDownloading(false) sits at the end of the try block, so a
\* failed export leaves the flag set.
exportSettled_noFinally ==
    /\ exportPending
    /\ exportPending' = FALSE
    /\ \E ok \in BOOLEAN :
         /\ threw' = ~ok
         /\ toast' = IF ok THEN "Downloaded!" ELSE "Failed to download"
         /\ downloading' = IF ok THEN FALSE ELSE downloading
    /\ UNCHANGED <<storeVars, page, history, loading, dialogVars, redirectPending>>
    /\ UNCHANGED themeVars

\* The rest of handleDownloadImage, once the toPng promise has settled:
\* try { ... toast 'Downloaded!' } catch { toast 'Failed to download' }
\* finally { setDownloading(false) }
exportSettled ==
    /\ exportPending
    /\ exportPending' = FALSE
    /\ \E ok \in BOOLEAN :
         /\ threw' = ~ok
         /\ toast' = IF ok THEN "Downloaded!" ELSE "Failed to download"
    /\ downloading' = FALSE
    /\ UNCHANGED <<storeVars, page, history, loading, dialogVars, redirectPending>>
    /\ UNCHANGED themeVars

\* The history store and the page's list. What happens inside the open dialog
\* (toggleDetails) is followed in SpecDialog.
Next ==
    \/ commit(CommittedSplit)
    \/ \E data \in SampleSplits : editSplit(data)
    \/ mount
    \/ leave
    \/ loadHistory
    \/ \E id \in DeleteIds : handleDelete(id)
    \/ handleClearAll
    \/ \E i \in 1..Len(history) : handleLoadSplit(history[i])
    \/ redirect
    \/ \E i \in 1..Len(history) : handleViewDetails(i)
    \/ closeDialog

Spec == Init /\ [][Next]_vars

\* The Split Summary dialog over one committed split, drawn from every SplitData.
InitDialog ==
    /\ \E data \in SplitDataSet : stored = <<NewEntry(data, 1)>>
    /\ liveSplit = <<>>
    /\ clock = 2
    /\ page = "history"
    /\ history = NormalizeAll(stored)
    /\ loading = FALSE
    /\ selectedEntry = <<>>
    /\ showDetails = FALSE
    /\ toast = "none"
    /\ threw = FALSE
    /\ redirectPending = FALSE
    /\ downloading = FALSE
    /\ exportPending = FALSE
    /\ ThemeSettled

NextDialog ==
    \/ \E i \in 1..Len(history) : handleViewDetails(i)
    \/ toggleDetails
    \/ closeDialog

SpecDialog == InitDialog /\ [][NextDialog]_vars

\* The page from its mount on, with the image export of the open dialog. The
\* mount effect runs loadHistory and a toPng promise settles, hence the
\* fairness on these two steps.
BusyLogs == {<<>>, <<LegacyEntry>>, <<NewEntry(CommittedSplit, 1), LegacyEntry>>}

InitBusy ==
    /\ stored \in BusyLogs
    /\ liveSplit = <<>>
    /\ clock = 2
    /\ page = "history"
    /\ history = <<>>
    /\ loading = TRUE
    /\ selectedEntry = <<>>
    /\ showDetails = FALSE
    /\ toast = "none"
    /\ threw = FALSE
    /\ redirectPending = FALSE
    /\ downloading = FALSE
    /\ exportPending = FALSE
    /\ ThemeSettled

NextBusy ==
    \/ loadHistory
    \/ \E id \in DeleteIds : handleDelete(id)
    \/ handleClearAll
    \/ \E i \in 1..Len(history) : handleViewDetails(i)
    \/ toggleDetails
    \/ closeDialog
    \/ handleDownloadImage
    \/ exportSettled

SpecBusy ==
    /\ InitBusy
    /\ [][NextBusy]_vars
    /\ WF_vars(loadHistory)
    /\ WF_vars(exportSettled)

\* ------------------------------------------------------------ ThemeProvider

Themes == {"light", "dark"}

\* What localStorage may hold under 'splitright_theme' when the provider
\* mounts: nothing, a theme, or some other string.
StoredThemes == {"absent", "light", "dark", "system"}

\* Classes other code may have put on the document root.
OtherRootClasses == {"x", "y"}

\* Faulty variant: the stored string is returned without being checked.
InitialTheme_unchecked(storedTheme, dark) ==
    IF storedTheme # "absent" THEN storedTheme
    ELSE IF dark THEN "dark" ELSE "light"

\* The useState initializer: the stored value if it is 'light' or 'dark', else
\* 'dark' if the system prefers dark, else 'light'.
InitialTheme(storedTheme, dark) ==
    IF storedTheme = "light" \/ storedTheme = "dark" THEN storedTheme
    ELSE IF dark THEN "dark" ELSE "light"

PageIdle ==
    /\ stored = <<>>
    /\ liveSplit = <<>>
    /\ clock = 1
    /\ page = "other"
    /\ history = <<>>
    /\ loading = TRUE
    /\ selectedEntry = <<>>
    /\ showDetails = FALSE
    /\ toast = "none"
    /\ threw = FALSE
    /\ redirectPending = FALSE
    /\ downloading = FALSE
    /\ exportPending = FALSE

\* The provider after its first render: both effects are still to run.
InitTheme ==
    /\ PageIdle
    /\ themeStored \in StoredThemes
    /\ prefersDark \in BOOLEAN
    /\ rootClasses \in SUBSET (Themes \cup OtherRootClasses)
    /\ theme = InitialTheme(themeStored, prefersDark)
    /\ themeEffect = "apply"

\* useEffect: root.classList.remove('light', 'dark'); root.classList.add(theme)
applyTheme ==
    /\ themeEffect = "apply"
    /\ rootClasses' = (rootClasses \ {"light", "dark"}) \cup {theme}
    /\ themeEffect' = "save"
    /\ UNCHANGED <<theme, themeStored, prefersDark>>
    /\ UNCHANGED pageVars

\* useEffect: localStorage.setItem(THEME_STORAGE_KEY, theme)
saveTheme ==
    /\ themeEffect = "save"
    /\ themeStored' = theme
    /\ themeEffect' = "done"
    /\ UNCHANGED <<theme, rootClasses, prefersDark>>
    /\ UNCHANGED pageVars

\* setTheme(newTheme): a changed theme renders again and its effects run; React
\* runs the effects of a render before it handles the next event.
setTheme(newTheme) ==
    /\ themeEffect = "done"
    /\ theme' = newTheme
    /\ themeEffect' = IF newTheme # theme THEN "apply" ELSE "done"
    /\ UNCHANGED <<themeStored, rootClasses, prefersDark>>
    /\ UNCHANGED pageVars

\* toggleTheme(): prev === 'light' ? 'dark' : 'light'
toggleTheme ==
    /\ themeEffect = "done"
    /\ theme' = IF theme = "light" THEN "dark" ELSE "light"
    /\ themeEffect' = "apply"
    /\ UNCHANGED <<themeStored, rootClasses, prefersDark>>
    /\ UNCHANGED pageVars

NextTheme ==
    \/ applyTheme
    \/ saveTheme
    \/ \E newTheme \in Themes : setTheme(newTheme)
    \/ toggleTheme

SpecTheme == InitTheme /\ [][NextTheme]_vars

\* ----------------------------------------------------------------- claims

\* C1: the persisted history log and the list held by the page never hold
\* more than 5 entries.
C1_AtMostFive == Len(stored) <= 5 /\ Len(history) <= 5

\* The legacy record was listed and reactivated, five commits followed with no
\* deletion (no toast since the redirect), and the page lists the five that are
\* left: the sixth entry evicted the oldest.
C1_Witness ==
    /\ Ids(history) = <<5, 4, 3, 2, 1>> /\ Ids(stored) = <<5, 4, 3, 2, 1>>
    /\ liveSplit = <<NormalizeEntry(LegacyEntry).data>> /\ toast = "none"

\* C2: a successful commit puts the new entry at the head and keeps the others
\* in order; an empty log gets length 1, a log of 5 loses exactly its last
\* (oldest) entry and keeps length 5.
C2_CommitPrepends ==
    [][\A data \in {CommittedSplit} :
          commit(data) /\ ~threw' =>
             /\ Len(stored') > 0
             /\ stored'[1].id = clock /\ stored'[1].data = data
             /\ Len(stored') = (IF Len(stored) = 5 THEN 5 ELSE Len(stored) + 1)
             /\ \A i \in 2..Len(stored') : stored'[i] = stored[i - 1]
             /\ (Len(stored) = 5 => ~HasId(stored', stored[5].id))]_vars

\* Six entries in order, the legacy record (id 0) and commits 1..5: the log of 5
\* was full when entry 5 came and lost exactly the legacy record. It had been
\* reactivated before, and nothing was deleted since (no toast since the redirect).
C2_Witness ==
    /\ Ids(stored) = <<5, 4, 3, 2, 1>> /\ page = "other"
    /\ liveSplit = <<NormalizeEntry(LegacyEntry).data>> /\ toast = "none"

\* What a load hands to the page for a persisted log.
ExpectedOnLoad(log) ==
    [i \in 1..Len(log) |->
        IF log[i].data.paymentInfo = PaymentAbsent
        THEN [log[i] EXCEPT !.data.paymentInfo = PaymentNone] ELSE log[i]]

\* C3: a load leaves the persisted log as it is and, unless reading it fails,
\* hands the page every entry with an absent paymentInfo set to { method: null }
\* and every other entry unchanged; the result is a function of the persisted
\* log alone, so two loads of the same log give the same list.
C3_LoadNormalizesCopy ==
    [][loadHistory =>
          /\ stored' = stored
          /\ (~threw' => history' = ExpectedOnLoad(stored))]_vars

\* A loaded legacy record shown with { method: null } while the persisted
\* record still has none, next to a record that kept its own paymentInfo.
C3_Witness ==
    /\ ~loading /\ Len(history) >= 2 /\ Ids(history) = Ids(stored)
    /\ \E i \in 1..Len(history) :
          /\ stored[i].data.paymentInfo = PaymentAbsent
          /\ history[i].data.paymentInfo = PaymentNone
    /\ \E i \in 1..Len(history) : history[i].data.paymentInfo = PaymentVenmo

WriteFailureToasts == {"Failed to delete", "Failed to clear history", "Failed to save"}

\* C4: a commit, delete or clear whose storage write fails reports a failure
\* and leaves the list held by the page, and the persisted log, as they were.
C4_FailedWriteKeepsView ==
    [][((\E id \in AllIds : handleDelete(id)) \/ handleClearAll
            \/ commit(CommittedSplit)) /\ threw' =>
          /\ toast' \in WriteFailureToasts
          /\ history' = history
          /\ stored' = stored]_vars

\* A delete failed while the page lists entries.
C4_Witness == threw /\ toast = "Failed to delete" /\ Len(history) >= 2

\* C5: after a load that failed the list held by the page is empty.
C5_FailedLoadEmpty == [][loadHistory /\ threw' => history' = <<>>]_vars

\* The log without its first entry of the given id (the log itself when none has it).
RemoveOne(log, id) ==
    IF ~HasId(log, id) THEN log
    ELSE LET k == CHOOSE i \in 1..Len(log) :
                     log[i].id = id /\ \A j \in 1..(i - 1) : log[j].id # id
         IN  SubSeq(log, 1, k - 1) \o SubSeq(log, k + 1, Len(log))

\* C6: a delete whose storage call does not fail removes exactly the one entry
\* with that id from the persisted log and from the page's list, keeps the others
\* in order, and with no such entry changes neither; it reports no error.
C6_DeleteRemovesOne ==
    [][\A id \in AllIds :
          handleDelete(id) /\ ~threw' =>
             /\ history' = RemoveOne(history, id)
             /\ stored' = RemoveOne(stored, id)
             /\ toast' = "Deleted"]_vars

\* Entry 2 was deleted from between entries 3 and 1.
C6_Witness == toast = "Deleted" /\ Ids(history) = <<3, 1>> /\ Ids(stored) = <<3, 1>>

\* C7: a reactivation whose storage call does not fail puts the entry's data
\* into the live-split slot and leaves the persisted log, the page's list and
\* the selected entry as they were; and no step that changes the live split
\* changes the persisted log or the page's list.
C7_ReactivateCopies ==
    [][/\ \A i \in 1..Len(history) :
            handleLoadSplit(history[i]) /\ ~threw' =>
               /\ liveSplit' = <<history[i].data>>
               /\ history' = history
               /\ stored' = stored
               /\ selectedEntry' = selectedEntry
       /\ (liveSplit' # liveSplit => stored' = stored /\ history' = history)]_vars

\* The last of three listed entries, the legacy record, was reactivated.
C7_Witness ==
    /\ toast = "Split loaded" /\ Len(history) = 3
    /\ liveSplit = <<history[3].data>> /\ history[3].id = 0

\* C8: a persisted entry keeps every field from its commit to its deletion;
\* the copy the page lists keeps its fields too and equals the persisted entry
\* (but for a paymentInfo defaulted on load), and the summary row shows the
\* entry's own peopleCount, itemsCount and total.
C8_EntryImmutable ==
    /\ [][/\ \A e \in Range(stored) : HasId(stored', e.id) => e \in Range(stored')
          /\ \A h \in Range(history) : HasId(history', h.id) => h \in Range(history')
          /\ selectedEntry' \in {selectedEntry, <<>>} \cup {<<h>> : h \in Range(history)}
         ]_vars
    /\ [](\A h \in Range(history) : \A e \in Range(stored) :
             h.id = e.id =>
                /\ h = [e EXCEPT !.data.paymentInfo = h.data.paymentInfo]
                /\ (e.data.paymentInfo # PaymentAbsent => h = e)
                /\ SummaryRow(h) = [people |-> e.peopleCount, items |-> e.itemsCount,
                                    total |-> e.total])

\* The legacy entry is still there after commits, a deletion of entry 1, a
\* view of its details and a reactivation.
C8_Witness ==
    /\ HasId(stored, 0) /\ HasId(history, 0) /\ HasId(stored, 2) /\ ~HasId(stored, 1)
    /\ selectedEntry # <<>> /\ toast = "Split loaded"

\* ------------------------------------------------- claims about the shares

SelData == selectedEntry[1].data

SumOfShares(data) == SumOver([p \in data.people |-> share(data, p)], data.people)

AllAssigned(data) == \A i \in 1..Len(data.items) : data.items[i].assignedTo # {}

\* C9 as stated: for every split the shares add up to the total.
C9_SharesSumToTotal ==
    selectedEntry # <<>> => SumOfShares(SelData) = calculateTotal(SelData)

\* sum of price * quantity over all items + tax + tipAmount
TotalOf(data) ==
    RAdd(ItemsSum(data.items),
         RAdd(R(data.tax),
              IF data.tipType = "percent"
              THEN RDiv(RMul(ItemsSum(data.items), R(data.tipValue)), R(100))
              ELSE R(data.tipValue)))

\* C9 (amended): with at least one participant, every item assigned to at least
\* one participant, and an items subtotal that is not zero (or, when it is zero,
\* equal mode with the tip given as an amount), the shares add up exactly to
\* sum of price * quantity + tax + tipAmount.
C9_SharesSumWhenAssigned ==
    (/\ selectedEntry # <<>>
     /\ SelData.people # {}
     /\ AllAssigned(SelData)
     /\ \/ ItemsSum(SelData.items) # Zero
        \/ SelData.taxTipSplitMode = "equal" /\ SelData.tipType = "amount")
    => /\ SumOfShares(SelData) = TotalOf(SelData)
       /\ calculateTotal(SelData) = TotalOf(SelData)

\* Two participants, two items split unevenly, tax and a percent tip shared
\* in proportion.
C9_Witness ==
    /\ selectedEntry # <<>>
    /\ SelData.people = {"A", "B"} /\ AllAssigned(SelData)
    /\ Len(SelData.items) = 2
    /\ SelData.items[1].assignedTo = {"A"} /\ SelData.items[1].quantity = 2
    /\ SelData.items[2].assignedTo = {"A", "B"} /\ SelData.items[2].price = 3
    /\ SelData.items[1].price = 3
    /\ SelData.tax = 10 /\ SelData.tipType = "percent" /\ SelData.tipValue = 10
    /\ SelData.taxTipSplitMode = "proportional"

\* C10: in equal mode every participant's tax row is tax / n and tip row is
\* tipAmount / n whatever they were assigned; in proportional mode a
\* participant whose item subtotal is zero has tax row 0 and tip row 0.
C10_EqualAndProportionalShares ==
    selectedEntry # <<>> =>
       LET d == SelData
           n == R(Cardinality(d.people))
           sub == IF ItemsSum(d.items) = Zero THEN One ELSE ItemsSum(d.items)
           tip == IF d.tipType = "percent"
                  THEN RDiv(RMul(sub, R(d.tipValue)), R(100)) ELSE R(d.tipValue)
       IN  \A p \in d.people :
              /\ d.taxTipSplitMode = "equal" =>
                    /\ taxShare(d, p) = RDiv(R(d.tax), n)
                    /\ tipShare(d, p) = RDiv(tip, n)
              /\ (d.taxTipSplitMode = "proportional"
                     /\ calculatePersonSubtotal(p, d.items) = Zero) =>
                    /\ taxShare(d, p) = Zero
                    /\ tipShare(d, p) = Zero

\* Two participants, tax 10 in equal mode, the only item assigned to A: each
\* tax row is 5.
C10_Witness ==
    /\ selectedEntry # <<>>
    /\ SelData.people = {"A", "B"} /\ SelData.taxTipSplitMode = "equal"
    /\ SelData.tax = 10 /\ Len(SelData.items) = 1
    /\ SelData.items[1].assignedTo = {"A"} /\ SelData.items[1].price = 3
    /\ taxShare(SelData, "A") = R(5) /\ taxShare(SelData, "B") = R(5)

\* The items with the i-th one taken out.
WithoutItem(items, i) == SubSeq(items, 1, i - 1) \o SubSeq(items, i + 1, Len(items))

\* C11: an item assigned to k >= 1 participants adds exactly
\* price * quantity / k to the item subtotal of each of those k and 0 to every
\* other participant's; an item assigned to nobody adds 0 to every
\* participant and is still counted in the receipt's items total.
C11_ItemSplitEvenly ==
    selectedEntry # <<>> =>
       LET d == SelData
       IN  \A i \in 1..Len(d.items) :
              LET item == d.items[i]
                  k == Cardinality(item.assignedTo)
                  cost == R(item.price * item.quantity)
                  rest == WithoutItem(d.items, i)
              IN  /\ ItemsSum(d.items) = RAdd(ItemsSum(rest), cost)
                  /\ \A p \in d.people :
                        /\ p \in item.assignedTo =>
                              /\ k >= 1
                              /\ itemShare(item) = RNorm(item.price * item.quantity, k)
                              /\ calculatePersonSubtotal(p, d.items) =
                                    RAdd(calculatePersonSubtotal(p, rest),
                                         RNorm(item.price * item.quantity, k))
                        /\ p \notin item.assignedTo =>
                              calculatePersonSubtotal(p, d.items) =
                                 calculatePersonSubtotal(p, rest)

\* An item of 3 x 2 shared by A and B and an item of 3 assigned to nobody:
\* each owes 3 for items and the items total is 9.
C11_Witness ==
    /\ selectedEntry # <<>>
    /\ SelData.people = {"A", "B"} /\ Len(SelData.items) = 2
    /\ SelData.items[1] = [price |-> 3, quantity |-> 2, assignedTo |-> {"A", "B"}]
    /\ SelData.items[2] = [price |-> 3, quantity |-> 1, assignedTo |-> {}]
    /\ calculatePersonSubtotal("A", SelData.items) = R(3)
    /\ calculatePersonSubtotal("B", SelData.items) = R(3)
    /\ ItemsSum(SelData.items) = R(9)

\* C12: the allocation never divides by zero on a well-formed SplitData: the
\* participant count and the items subtotal used as divisors are never 0 (no
\* participants count as 1, an items subtotal of zero is replaced by 1), every
\* amount computed is a finite number, and with an items subtotal of zero every
\* proportional tax share and tip share is 0.
C12_NoDivisionByZero ==
    selectedEntry # <<>> =>
       LET d == SelData
       IN  /\ IsFinite(peopleCount(d)) /\ peopleCount(d) # Zero
           /\ IsFinite(itemsSubtotal(d)) /\ itemsSubtotal(d) # Zero
           /\ d.people = {} => peopleCount(d) = One
           /\ ItemsSum(d.items) = Zero => itemsSubtotal(d) = One
           /\ IsFinite(tipAmount(d))
           /\ IsFinite(calculateTotal(d))
           /\ \A p \in d.people :
                 /\ IsFinite(calculatePersonSubtotal(p, d.items))
                 /\ IsFinite(taxShare(d, p))
                 /\ IsFinite(tipShare(d, p))
                 /\ IsFinite(calculateFinalShares(d)[p])
                 /\ \A i \in 1..Len(personItems(p, d.items)) :
                       IsFinite(itemShare(personItems(p, d.items)[i]))
                 /\ (ItemsSum(d.items) = Zero /\ d.taxTipSplitMode = "proportional") =>
                       /\ taxShare(d, p) = Zero
                       /\ tipShare(d, p) = Zero

\* One participant whose only item costs 0, tax 10 and a 10 percent tip split
\* proportionally: the divisor is 1 and the tax and tip rows are 0.
C12_Witness ==
    /\ selectedEntry # <<>>
    /\ SelData.people = {"A"} /\ Len(SelData.items) = 1
    /\ SelData.items[1].price = 0 /\ SelData.items[1].assignedTo = {"A"}
    /\ SelData.tax = 10 /\ SelData.tipValue = 10 /\ SelData.tipType = "percent"
    /\ SelData.taxTipSplitMode = "proportional"
    /\ itemsSubtotal(SelData) = One
    /\ taxShare(SelData, "A") = Zero /\ tipShare(SelData, "A") = Zero

\* The amounts listed under a participant in the dialog: the block is rendered
\* when  showDetails && personItems.length > 0 ; it holds one row per assigned
\* item, a Tax row when tax > 0 and a Tip row when tipValue > 0.
breakdownRows(data, personId, details) ==
    LET mine == personItems(personId, data.items)
    IN  IF details /\ Len(mine) > 0
        THEN [j \in 1..Len(mine) |-> itemShare(mine[j])]
             \o (IF data.tax > 0 THEN <<taxShare(data, personId)>> ELSE <<>>)
             \o (IF data.tipValue > 0 THEN <<tipShare(data, personId)>> ELSE <<>>)
        ELSE <<>>

RECURSIVE SumRows(_)
SumRows(rows) == IF rows = <<>> THEN Zero ELSE RAdd(Head(rows), SumRows(Tail(rows)))

\* C13: with the details shown, the amounts listed under every participant
\* (each assigned item at cost / assignee count, then the tax and the tip
\* contribution) add up to that participant's final share, also for a
\* participant with no assigned item who owes an equal-mode tax or tip share.
C13_BreakdownAddsUp ==
    (selectedEntry # <<>> /\ showDetails) =>
       \A p \in SelData.people :
          SumRows(breakdownRows(SelData, p, showDetails)) = share(SelData, p)

\* The part that the dialog does satisfy: a participant with at least one
\* assigned item.
C13_BreakdownAddsUpWithItems ==
    (selectedEntry # <<>> /\ showDetails) =>
       \A p \in SelData.people :
          Len(personItems(p, SelData.items)) > 0 =>
             SumRows(breakdownRows(SelData, p, showDetails)) = share(SelData, p)

\* The list on the page is the normalized content of the persisted log, entry
\* for entry and in the same order.
ListMatchesLog == history = NormalizeAll(stored)

\* C14: after any sequence of load, delete and clear on the history page in
\* which each storage call succeeded, the list on the page equals the
\* normalized content of the persisted log: a successful load establishes
\* this, a successful delete or clear keeps it, and after a successful clear
\* both are empty.
C14_ListEqualsLog ==
    [][ /\ (loadHistory /\ ~threw') => ListMatchesLog'
        /\ ((\E id \in AllIds : handleDelete(id)) /\ ~threw' /\ ListMatchesLog)
              => ListMatchesLog'
        /\ (handleClearAll /\ ~threw' /\ ListMatchesLog)
              => (ListMatchesLog' /\ history' = <<>> /\ stored' = <<>>)
      ]_vars

\* The legacy record and a commit were loaded, the commit was deleted: the
\* list holds the normalized legacy record, the log the record as persisted.
C14_Witness ==
    /\ page = "history" /\ ~loading /\ ~threw
    /\ toast = "Deleted"
    /\ stored = <<LegacyEntry>>
    /\ history = <<NormalizeEntry(LegacyEntry)>>
    /\ history # stored
    /\ clock = 2

\* C15: the busy flags are always cleared. Every run of loadHistory ends with
\* loading = false and every settled export ends with downloading = false,
\* whether the call succeeded or threw, so the page does not stay loading or
\* downloading: a set flag is eventually cleared.
C15_BusyFlagsCleared ==
    /\ [][loadHistory => ~loading']_vars
    /\ [][exportSettled => ~downloading']_vars
    /\ (loading ~> ~loading)
    /\ (downloading ~> ~downloading)

\* The export of an open entry threw: the failure toast is up and the flag is
\* cleared, after a load that had cleared the loading flag.
C15_Witness ==
    /\ page = "history" /\ ~loading
    /\ selectedEntry # <<>>
    /\ toast = "Failed to download" /\ threw
    /\ ~downloading /\ ~exportPending

\* C16: the theme is always 'light' or 'dark'; the initial theme is the stored
\* value only if that is 'light' or 'dark' and the system preference
\* otherwise; and once the effects of a render have run, the value stored
\* under 'splitright_theme' equals the theme and the document root carries
\* exactly that one theme class.
C16_ThemeConsistent ==
    /\ (themeStored \in Themes => theme = themeStored)
    /\ (themeStored \notin Themes => theme = IF prefersDark THEN "dark" ELSE "light")
    /\ [](theme \in Themes)
    /\ [](themeEffect = "done" =>
             /\ themeStored = theme
             /\ rootClasses \cap Themes = {theme})

\* With a light system the theme is dark, stored as such, and the root, which
\* also carries another class, has the dark class only.
C16_Witness ==
    /\ themeEffect = "done"
    /\ ~prefersDark
    /\ theme = "dark" /\ themeStored = "dark"
    /\ rootClasses = {"dark", "x"}

====
